---- MODULE Spec2Model ----
(***************************************************************************)
(* State-machine model of the QR reader single-page application:           *)
(*   src/App.tsx                      App state and its handlers           *)
(*   src/components/ScreenScanner.tsx ScreenScanner effects, followed in   *)
(*                                    the same file by analyzeQRContent    *)
(*                                    and the AnalysisResult type          *)
(*   src/utils/qrUtils.ts             readQRFromImage / scanImageData      *)
(*   src/components/DropZone.tsx      DropZone handlers                    *)
(*   src/unnamed/part_000             App variant: mouse drag of the       *)
(*                                    camera button (GestureSpec)          *)
(*   src/unnamed/part_001             App variant: keyboard start and      *)
(*                                    handleReset (Part001Spec)            *)
(*                                                                         *)
(* One action is one browser task: an event handler, or the continuation   *)
(* of an async function after its await.  React state set by a handler is  *)
(* committed at the end of the task, together with the effects of the      *)
(* re-rendered ScreenScanner.  A handler closes over the state of the      *)
(* render that created it; the continuation of handleFileSelected keeps    *)
(* the closure of the render in which the file was selected.               *)
(***************************************************************************)
EXTENDS Integers, Sequences, FiniteSets, Bags, TLC

\* ------------------------------------------------------------------ bounds
MaxStreams == 2          \* distinct MediaStream objects that can coexist
MaxInFlight == 2         \* promises in flight (getDisplayMedia,
                         \* readQRFromImage and analyzeQRContent together)
MaxDim == 2              \* largest width and height of an ImageData
MaxCoord == 2            \* largest clientX and clientY of a mouse event

\* ------------------------------------------------------------------ values
Null == "NULL"           \* JavaScript null of a string-typed state
NoStream == 0            \* JavaScript null of activeStream
Streams == 1..MaxStreams
Payloads == {"", "a", "b"}   \* QRCode.data the decoder can return

ErrNotFound == "QR not detected"
ErrFailed == "image processing failed"
ErrUnsupported == "screen sharing unsupported"
ErrCapture == "could not start screen capture"

CameraTrigger == "camera-trigger"
DragData == {CameraTrigger, "other text"}

\* names of the rejections of getDisplayMedia
DisplayErrors == {"NotAllowedError", "NotFoundError"}

\* outcomes of readQRFromImage: a QRCode, null, or a rejection
Found(p) == [kind |-> "found", data |-> p]
NotFound == [kind |-> "null", data |-> Null]
Rejected == [kind |-> "reject", data |-> Null]
DecodeOutcomes == {Found(p) : p \in Payloads} \cup {NotFound, Rejected}

\* AnalysisResult records (types.ts)
Safeties == {"safe", "suspicious", "unknown", "info"}
Categories == {"url", "text", "wifi", "other"}
NoKeyResult == [summary |-> "no API key", safety |-> "unknown", category |-> "other"]
UnavailableResult == [summary |-> "AI unavailable", safety |-> "unknown", category |-> "other"]

\* what the remote call can do: throw, or answer with a response text
TxtEmpty == ""
TxtGarbage == "not json"
TxtNull == "null"
TxtSafeUrl == "{summary:link,safety:safe,category:url}"
TxtOffSchema == "{summary:x,safety:evil,category:url}"
ResponseTexts == {TxtEmpty, TxtGarbage, TxtNull, TxtSafeUrl, TxtOffSchema}
RemoteThrows == [kind |-> "throw", text |-> TxtEmpty]
RemoteText(t) == [kind |-> "text", text |-> t]
RemoteOutcomes == {RemoteThrows} \cup {RemoteText(t) : t \in ResponseTexts}

\* File.type of a dropped file, as a sequence of tokens of the MIME string
ImagePrefix == <<"image", "/">>
FileTypes == {<<"image", "/", "png">>, <<"text", "/", "plain">>, <<"image">>, <<>>}
\* e.dataTransfer.files of a drop event
DroppedFiles == {<<>>} \cup {<<t>> : t \in FileTypes}
                    \cup {<<<<"text", "/", "plain">>, <<"image", "/", "png">>>>}

\* what happens to one file inside readQRFromImage: the FileReader fires
\* load or error, e.target.result is a data URL or empty, the Image fires
\* load or error, getContext returns a context or null, getImageData and
\* the decoder return or throw, and the decoder finds a payload or nothing
FileFates == [reader : {"load", "error"}, result : {"dataurl", ""},
              image : {"load", "error"}, context : BOOLEAN,
              pixels : {"ok", "throws"}, code : Payloads \cup {Null}]
\* a promise that is never resolved and never rejected
Hangs == [kind |-> "never", data |-> Null]
\* no file has been handed to readQRFromImage
NoFile == [reader |-> "none", result |-> "", image |-> "none",
           context |-> FALSE, pixels |-> "none", code |-> Null]
\* the promise of a call of readQRFromImage that has not been made
NotStarted == [called |-> FALSE, calls |-> <<>>]

\* clientX, clientY of a mouse event
Points == (0..MaxCoord) \X (0..MaxCoord)
\* getBoundingClientRect() of the camera button
ButtonRect == [left |-> 0, top |-> 0, width |-> 2, height |-> 1]
\* the pointer is over the camera button
OverButton(p) ==
    /\ p[1] \in ButtonRect.left .. (ButtonRect.left + ButtonRect.width - 1)
    /\ p[2] \in ButtonRect.top .. (ButtonRect.top + ButtonRect.height - 1)
\* e.button of a mouse event: left or right
MouseButtons == {0, 2}
\* dragPosition = null
NoPosition == <<>>
\* no mouse gesture on the camera button is under way
NoGesture == [down |-> FALSE, click |-> FALSE, starts |-> 0]

\* what one run of the scan callback can meet when it finds no code: the
\* frame is skipped (video not ready, no context, zero-sized canvas), the
\* decode throws, or the decoder returns null
FrameOutcomes == {"skipped", "threw", "noCode"}

\* ImageData handed to scanImageData: a pixel buffer with its dimensions.
\* A buffer is described by the layout it was written with (rowLen pixels
\* per row, rows rows) and the payload of the QR code it shows, if any.
PixelBuffers == [rowLen : 1..MaxDim, rows : 1..MaxDim, shows : {Null, "a"}]
ImageDatas == [data : PixelBuffers, width : 0..MaxDim, height : 0..MaxDim]
NoImage == [data |-> [rowLen |-> 1, rows |-> 1, shows |-> Null], width |-> 0, height |-> 0]
\* value of code before scanImageData has returned
NotCalled == [kind |-> "not called", data |-> Null]
\* scanImageData did not return: it threw
Threw == [kind |-> "throw", data |-> Null]

\* requestRef.current: unset, the id of a pending callback, or the id of a
\* callback that has run or was cancelled
NoFrame == [pending |-> 0, ref |-> "unset"]

VARIABLES
    qrData,           \* App state: string | null
    analysis,         \* App state: <<>> (null) or <<AnalysisResult>>
    isProcessing,     \* App state
    isScreenScanning, \* App state
    activeStream,     \* App state: stream id or NoStream
    error,            \* App state: string | null
    isDraggingCamera, \* App state
    live,             \* acquired streams whose tracks have not been stopped
    pendingDisplay,   \* getDisplayMedia promises not yet settled
    pendingFiles,     \* bag of readQRFromImage promises not yet settled,
                      \* each with the activeStream its closure captured
    pendingAnalysis,  \* bag of analyzeQRContent promises: payloads
    listener,         \* stream whose video track carries the 'ended'
                      \* listener of ScreenScanner, or NoStream
    apiKey,           \* process.env.API_KEY is set
    displaySupported, \* navigator.mediaDevices.getDisplayMedia exists
    hungFiles,        \* readQRFromImage promises that can no longer settle
    raf,              \* scan loop of ScreenScanner: number of pending
                      \* requestAnimationFrame callbacks, and requestRef
    imageData,        \* argument of a call of scanImageData
    jsQRLoaded,       \* window.jsQR is defined
    code,             \* what that call of scanImageData returned
    file,             \* argument of a call of readQRFromImage: its fate
    promise,          \* the promise of that call: whether the call was
                      \* made, and the resolve and reject calls so far
    dragPosition,     \* part_000 state: <<x, y>> or NoPosition (null)
    dragStartOffset,  \* part_000 ref: <<x, y>>
    mouse,            \* the mouse gesture on the camera button: left button
                      \* down since a mousedown on the button, click event
                      \* waiting to be delivered to it, and the calls of
                      \* handleStartScreenScan since the mousedown
    trace             \* calls made by the latest task, in program order, if
                      \* it ran processQRData or handleStopScreenScan,
                      \* settled a getDisplayMedia rejection or an analysis,
                      \* refused a drop or ran a scan callback; empty after
                      \* any other task

vars == <<qrData, analysis, isProcessing, isScreenScanning, activeStream,
          error, isDraggingCamera, live, pendingDisplay, pendingFiles,
          pendingAnalysis, listener, apiKey, displaySupported, hungFiles,
          raf, imageData, jsQRLoaded, code, file, promise, dragPosition,
          dragStartOffset, mouse, trace>>

\* the App, its services and the browser objects it holds
appVars == <<qrData, analysis, isProcessing, isScreenScanning, activeStream,
             error, isDraggingCamera, live, pendingDisplay, pendingFiles,
             pendingAnalysis, listener, apiKey, displaySupported, hungFiles,
             raf, trace>>

\* one mouse gesture on the camera button of part_000
gestureVars == <<dragPosition, dragStartOffset, mouse>>

\* one call of scanImageData, one call of readQRFromImage, one gesture
callVars == <<imageData, jsQRLoaded, code, file, promise, dragPosition,
              dragStartOffset, mouse>>

\* ----------------------------------------------------------------- helpers
\* JavaScript truthiness of a string | null
Truthy(s) == s # Null /\ s # ""

\* App.tsx 124: {isScreenScanning && activeStream && <ScreenScanner .../>}
ScannerMounted(scanning, stream) == scanning /\ stream # NoStream

\* App.tsx 166: {!qrData ? (intake view) : (<ResultCard .../>)}
ResultView(q) == Truthy(q)

\* ------------------------------------------------ services/geminiService.ts
\* JSON.parse(text): throws on malformed text, otherwise the parsed value
\* (the cast `as AnalysisResult` checks nothing at run time)
JSONParse(t) ==
    CASE t = TxtNull -> [threw |-> FALSE, value |-> <<>>]
      [] t = TxtSafeUrl ->
           [threw |-> FALSE,
            value |-> <<[summary |-> "link", safety |-> "safe", category |-> "url"]>>]
      [] t = TxtOffSchema ->
           [threw |-> FALSE,
            value |-> <<[summary |-> "x", safety |-> "evil", category |-> "url"]>>]
      [] OTHER -> [threw |-> TRUE, value |-> <<>>]

\* the try block of analyzeQRContent: generateContent, the text check, parse
AnalyzeTry(remote) ==
    IF remote.kind = "throw" THEN [threw |-> TRUE, value |-> <<>>]
    ELSE IF remote.text = "" THEN [threw |-> TRUE, value |-> <<>>]
    ELSE JSONParse(remote.text)

analyzeQRContent_rethrow(key, remote) ==
    IF ~key
    THEN [settled |-> "resolved", value |-> <<NoKeyResult>>, requested |-> FALSE]
    ELSE LET r == AnalyzeTry(remote) IN
         IF r.threw
         THEN [settled |-> "rejected", value |-> <<>>, requested |-> TRUE]
         ELSE [settled |-> "resolved", value |-> r.value, requested |-> TRUE]

analyzeQRContent_noKeyCheck(key, remote) ==
    LET r == AnalyzeTry(remote) IN
    IF r.threw
    THEN [settled |-> "resolved", value |-> <<UnavailableResult>>, requested |-> TRUE]
    ELSE [settled |-> "resolved", value |-> r.value, requested |-> TRUE]

\* analyzeQRContent(content): how its promise settles, and whether the
\* remote request was issued
analyzeQRContent(key, remote) ==
    IF ~key
    THEN [settled |-> "resolved", value |-> <<NoKeyResult>>, requested |-> FALSE]
    ELSE LET r == AnalyzeTry(remote) IN
         IF r.threw
         THEN [settled |-> "resolved", value |-> <<UnavailableResult>>, requested |-> TRUE]
         ELSE [settled |-> "resolved", value |-> r.value, requested |-> TRUE]

\* ------------------------------------------------------------------ App.tsx
handleStopScreenScan_keepsTracks(cap, lv, cur) ==
    IF cap # NoStream
    THEN [live |-> lv, activeStream |-> NoStream, isScreenScanning |-> FALSE,
          trace |-> <<"setActiveStream(null)", "setIsScreenScanning(false)">>]
    ELSE [live |-> lv, activeStream |-> cur, isScreenScanning |-> FALSE,
          trace |-> <<"setIsScreenScanning(false)">>]

\* handleStopScreenScan of a render whose activeStream was cap, applied to
\* the live set lv and the current state value cur
handleStopScreenScan(cap, lv, cur) ==
    IF cap # NoStream
    THEN [live |-> lv \ {cap}, activeStream |-> NoStream, isScreenScanning |-> FALSE,
          trace |-> <<"track.stop", "setActiveStream(null)", "setIsScreenScanning(false)">>]
    ELSE [live |-> lv, activeStream |-> cur, isScreenScanning |-> FALSE,
          trace |-> <<"setIsScreenScanning(false)">>]

processQRData_requestFirst(data, cap, lv, cur, key) ==
    LET stop == handleStopScreenScan(cap, lv, cur) IN
    [qrData |-> data,
     isProcessing |-> FALSE,
     live |-> stop.live,
     activeStream |-> stop.activeStream,
     isScreenScanning |-> stop.isScreenScanning,
     error |-> Null,
     request |-> data,
     trace |-> <<"setQrData", "setIsProcessing(false)", "analyzeQRContent">>
               \o (IF key THEN <<"generateContent">> ELSE <<>>)
               \o stop.trace \o <<"setError(null)">>]

processQRData_noSetQrData(data, cap, lv, cur, key) ==
    LET stop == handleStopScreenScan(cap, lv, cur) IN
    [qrData |-> qrData,
     isProcessing |-> FALSE,
     live |-> stop.live,
     activeStream |-> stop.activeStream,
     isScreenScanning |-> stop.isScreenScanning,
     error |-> Null,
     request |-> data,
     trace |-> <<"setIsProcessing(false)">> \o stop.trace
               \o <<"setError(null)", "analyzeQRContent">>
               \o (IF key THEN <<"generateContent">> ELSE <<>>)]

processQRData_staleRequest(data, cap, lv, cur, key) ==
    LET stop == handleStopScreenScan(cap, lv, cur) IN
    [qrData |-> data,
     isProcessing |-> FALSE,
     live |-> stop.live,
     activeStream |-> stop.activeStream,
     isScreenScanning |-> stop.isScreenScanning,
     error |-> Null,
     request |-> qrData,
     trace |-> <<"setQrData", "setIsProcessing(false)">> \o stop.trace
               \o <<"setError(null)", "analyzeQRContent">>
               \o (IF key THEN <<"generateContent">> ELSE <<>>)]

processQRData_keepsScanning(data, cap, lv, cur, key) ==
    [qrData |-> data,
     isProcessing |-> FALSE,
     live |-> lv,
     activeStream |-> cur,
     isScreenScanning |-> isScreenScanning,
     error |-> Null,
     request |-> data,
     trace |-> <<"setQrData", "setIsProcessing(false)", "setError(null)",
                 "analyzeQRContent">>
               \o (IF key THEN <<"generateContent">> ELSE <<>>)]

\* processQRData(data) of a render whose activeStream was cap
processQRData(data, cap, lv, cur, key) ==
    LET stop == handleStopScreenScan(cap, lv, cur) IN
    [qrData |-> data,
     isProcessing |-> FALSE,
     live |-> stop.live,
     activeStream |-> stop.activeStream,
     isScreenScanning |-> stop.isScreenScanning,
     error |-> Null,
     request |-> data,
     trace |-> <<"setQrData", "setIsProcessing(false)">> \o stop.trace
               \o <<"setError(null)", "analyzeQRContent">>
               \o (IF key THEN <<"generateContent">> ELSE <<>>)]

StreamEffect_noCleanup(old, scanning, stream) ==
    IF ScannerMounted(scanning, stream) THEN stream ELSE old

\* ScreenScanner's first effect and its cleanup, run when the component is
\* mounted, re-rendered with new props, or unmounted: the 'ended' listener
\* sits on the video track of the current stream prop while mounted
StreamEffect(old, scanning, stream) ==
    IF ScannerMounted(scanning, stream) THEN stream ELSE NoStream

\* ------------------------------------------------- ScreenScanner scan loop
\* cancelAnimationFrame(requestRef.current), guarded by if (requestRef.current)
CancelFrame(r) ==
    IF r.ref = "pending" THEN [pending |-> r.pending - 1, ref |-> "spent"] ELSE r

\* requestRef.current = requestAnimationFrame(scan)
RequestFrame(r) == [pending |-> r.pending + 1, ref |-> "pending"]

\* the browser runs a pending scan callback
RunFrame(r) ==
    [pending |-> r.pending - 1, ref |-> IF r.ref = "pending" THEN "spent" ELSE r.ref]

ScanEffect_leaksOnUnmount(r, was, is, streamDeps, scanDeps) ==
    LET c1 == IF streamDeps THEN CancelFrame(r) ELSE r
        c2 == IF scanDeps THEN CancelFrame(c1) ELSE c1
    IN  IF was /\ is THEN (IF scanDeps THEN RequestFrame(c2) ELSE c2)
        ELSE IF was THEN [pending |-> r.pending, ref |-> "unset"]
        ELSE IF is THEN RequestFrame([pending |-> r.pending, ref |-> "unset"])
        ELSE r

ScanEffect_noCancel(r, was, is, streamDeps, scanDeps) ==
    IF was /\ is THEN (IF scanDeps THEN RequestFrame(r) ELSE r)
    ELSE IF was THEN [pending |-> r.pending, ref |-> "unset"]
    ELSE IF is THEN RequestFrame([pending |-> r.pending, ref |-> "unset"])
    ELSE r

\* the effects of ScreenScanner at a commit: was/is say whether it was and
\* is mounted, streamDeps whether stream or onCancel changed, scanDeps
\* whether onScan changed.  Cleanups run first (the first effect's cleanup
\* also cancels the pending frame), then the effect bodies.
ScanEffect(r, was, is, streamDeps, scanDeps) ==
    LET c1 == IF streamDeps THEN CancelFrame(r) ELSE r
        c2 == IF scanDeps THEN CancelFrame(c1) ELSE c1
        un == CancelFrame(CancelFrame(r))
    IN  IF was /\ is THEN (IF scanDeps THEN RequestFrame(c2) ELSE c2)
        ELSE IF was THEN [pending |-> un.pending, ref |-> "unset"]
        ELSE IF is THEN RequestFrame([pending |-> r.pending, ref |-> "unset"])
        ELSE r

\* App passes processQRData and handleStopScreenScan, which are new
\* functions in every render: both effects re-run at every commit of App
ScannerCommit(r, was, is) == ScanEffect(r, was, is, TRUE, TRUE)

\* -------------------------------------------------------- utils/qrUtils.ts
\* the decoder library: jsQR(data, width, height) finds the code a buffer
\* shows if it is read with the layout it was written with
jsQR(data, width, height) ==
    IF data.shows # Null /\ width = data.rowLen /\ height = data.rows
    THEN Found(data.shows)
    ELSE NotFound

scanImageData_unguarded(loaded, img) ==
    IF loaded THEN jsQR(img.data, img.width, img.height) ELSE Threw

\* scanImageData(imageData), with loaded telling whether window.jsQR exists
scanImageData(loaded, img) ==
    IF loaded THEN jsQR(img.data, img.width, img.height) ELSE NotFound

\* readQRFromImage(file) for a file with fate f: how its promise settles
readQRFromImage(f) ==
    IF f.reader = "error" THEN Hangs
    ELSE IF f.result = "" THEN Hangs
    ELSE IF f.image = "error" THEN Rejected
    ELSE IF ~f.context THEN Rejected
    ELSE IF f.pixels = "throws" THEN Rejected
    ELSE IF f.code = Null THEN NotFound
    ELSE Found(f.code)

SettleCalls_rejectsNoCode(f) ==
    IF f.reader # "load" \/ f.result = "" THEN <<>>
    ELSE IF f.image = "error" \/ ~f.context \/ f.pixels = "throws"
    THEN <<Rejected>>
    ELSE IF f.code = Null THEN <<Rejected>>
    ELSE <<Found(f.code)>>

\* the calls of resolve and reject that the handlers of readQRFromImage
\* make for a file, in order: reader.onload is the only FileReader handler
\* and sets img.src only for a non-empty result; img.onerror rejects;
\* img.onload rejects and returns without a context, and otherwise
\* resolves with the code or with null inside a try whose catch rejects
SettleCalls(f) ==
    IF f.reader # "load" THEN <<>>
    ELSE IF f.result = "" THEN <<>>
    ELSE IF f.image = "error" THEN <<Rejected>>
    ELSE IF ~f.context THEN <<Rejected>>
    ELSE IF f.pixels = "throws" THEN <<Rejected>>
    ELSE IF f.code = Null THEN <<NotFound>>
    ELSE <<Found(f.code)>>

\* promises not yet settled
InFlight == pendingDisplay + BagCardinality(pendingFiles)
            + BagCardinality(pendingAnalysis) + hungFiles

\* a MediaStream object distinct from every stream still referenced
FreshStreams == Streams \ (live \cup {activeStream} \cup BagToSet(pendingFiles))
FreshStream == CHOOSE s \in FreshStreams : \A t \in FreshStreams : s <= t

AppInit ==
    /\ qrData = Null
    /\ analysis = <<>>
    /\ isProcessing = FALSE
    /\ isScreenScanning = FALSE
    /\ activeStream = NoStream
    /\ error = Null
    /\ isDraggingCamera = FALSE
    /\ live = {}
    /\ pendingDisplay = 0
    /\ pendingFiles = EmptyBag
    /\ pendingAnalysis = EmptyBag
    /\ listener = NoStream
    /\ apiKey \in BOOLEAN
    /\ displaySupported \in BOOLEAN
    /\ hungFiles = 0
    /\ raf = NoFrame
    /\ trace = <<>>
    /\ dragPosition = NoPosition
    /\ dragStartOffset = <<0, 0>>
    /\ mouse = NoGesture

Init ==
    /\ AppInit
    /\ imageData = NoImage
    /\ jsQRLoaded = TRUE
    /\ code = NotCalled
    /\ file = NoFile
    /\ promise = NotStarted

\* handleFileSelected(file), up to its await
handleFileSelected ==
    /\ InFlight < MaxInFlight
    /\ isProcessing' = TRUE
    /\ error' = Null
    /\ qrData' = Null
    /\ analysis' = <<>>
    /\ pendingFiles' = pendingFiles (+) SetToBag({activeStream})

\* onFileSelected(file) from the file input or a paste.  DropZone is
\* rendered by the intake view only; the file input is disabled while
\* isProcessing and lies under the scanner overlay; the window 'paste'
\* listener works whenever DropZone is mounted.
FileSelected(path) ==
    /\ ~ResultView(qrData)
    /\ path = "picker" => ~isProcessing /\ ~ScannerMounted(isScreenScanning, activeStream)
    /\ handleFileSelected
    /\ trace' = <<>>
    /\ listener' = StreamEffect(listener, isScreenScanning, activeStream)
    /\ UNCHANGED <<isScreenScanning, activeStream, isDraggingCamera, live,
                   pendingDisplay, pendingAnalysis, apiKey, displaySupported>>
    /\ raf' = ScannerCommit(raf, ScannerMounted(isScreenScanning, activeStream),
                          ScannerMounted(isScreenScanning', activeStream'))
    /\ UNCHANGED <<hungFiles, callVars>>

\* handleFileSelected after its await: readQRFromImage settled with outcome
\* r; cap is the activeStream of the render that created this closure
FileDecoded(cap, r) ==
    /\ BagIn(cap, pendingFiles)
    /\ pendingFiles' = pendingFiles (-) SetToBag({cap})
    /\ IF r.kind = "found"
       THEN LET p == processQRData(r.data, cap, live, activeStream, apiKey) IN
            /\ qrData' = p.qrData
            /\ isProcessing' = p.isProcessing
            /\ live' = p.live
            /\ activeStream' = p.activeStream
            /\ isScreenScanning' = p.isScreenScanning
            /\ error' = p.error
            /\ pendingAnalysis' = pendingAnalysis (+) SetToBag({p.request})
            /\ trace' = p.trace
       ELSE /\ error' = IF r.kind = "null" THEN ErrNotFound ELSE ErrFailed
            /\ isProcessing' = FALSE
            /\ trace' = <<>>
            /\ UNCHANGED <<qrData, live, activeStream, isScreenScanning, pendingAnalysis>>
    /\ listener' = StreamEffect(listener, isScreenScanning', activeStream')
    /\ UNCHANGED <<analysis, isDraggingCamera, pendingDisplay, apiKey, displaySupported>>
    /\ raf' = ScannerCommit(raf, ScannerMounted(isScreenScanning, activeStream),
                          ScannerMounted(isScreenScanning', activeStream'))
    /\ UNCHANGED <<hungFiles, callVars>>

StartsWith_contains(type, prefix) ==
    \E i \in 1..Len(type) : type[i] = prefix[1]

\* file.type.startsWith(prefix)
StartsWith(type, prefix) ==
    Len(type) >= Len(prefix) /\ SubSeq(type, 1, Len(prefix)) = prefix

\* handleDrop of DropZone for a drop of files (the drop area lies under the
\* scanner overlay): the first file goes to onFileSelected if its type
\* starts with 'image/', otherwise an alert is shown.  DropZone's own
\* isDragging flag only styles the drop area; the call of its setter is
\* recorded in the trace of a refused drop.
HandleDrop(files) ==
    /\ ~ResultView(qrData)
    /\ ~ScannerMounted(isScreenScanning, activeStream)
    /\ IF Len(files) > 0 /\ StartsWith(files[1], ImagePrefix)
       THEN /\ handleFileSelected
            /\ trace' = <<>>
       ELSE /\ trace' = IF Len(files) > 0
                        THEN <<"setIsDragging(false)", "alert">> ELSE <<>>
            /\ UNCHANGED <<isProcessing, error, qrData, analysis, pendingFiles>>
    /\ listener' = StreamEffect(listener, isScreenScanning, activeStream)
    /\ raf' = ScannerCommit(raf, ScannerMounted(isScreenScanning, activeStream),
                          ScannerMounted(isScreenScanning, activeStream))
    /\ UNCHANGED <<isScreenScanning, activeStream, isDraggingCamera, live,
                   pendingDisplay, pendingAnalysis, apiKey, displaySupported, hungFiles,
                   callVars>>

\* a pending readQRFromImage meets a fate for which no handler settles
\* the promise: it stays pending for ever
FileHangs(cap) ==
    /\ BagIn(cap, pendingFiles)
    /\ {f \in FileFates : readQRFromImage(f) = Hangs} # {}
    /\ pendingFiles' = pendingFiles (-) SetToBag({cap})
    /\ hungFiles' = hungFiles + 1
    /\ trace' = <<>>
    /\ UNCHANGED <<qrData, analysis, isProcessing, isScreenScanning, activeStream,
                   error, isDraggingCamera, live, pendingDisplay, pendingAnalysis,
                   listener, apiKey, displaySupported, raf, callVars>>

\* handleReset, the onReset of ResultCard
Reset ==
    /\ ResultView(qrData)
    /\ qrData' = Null
    /\ analysis' = <<>>
    /\ error' = Null
    /\ isProcessing' = FALSE
    /\ trace' = <<>>
    /\ listener' = StreamEffect(listener, isScreenScanning, activeStream)
    /\ UNCHANGED <<isScreenScanning, activeStream, isDraggingCamera, live,
                   pendingDisplay, pendingFiles, pendingAnalysis, apiKey, displaySupported>>
    /\ raf' = ScannerCommit(raf, ScannerMounted(isScreenScanning, activeStream),
                          ScannerMounted(isScreenScanning', activeStream'))
    /\ UNCHANGED <<hungFiles, callVars>>

\* handleCameraDragStart of the camera icon (draggable={!isScreenScanning},
\* rendered by the intake view)
CameraDragStart ==
    /\ ~ResultView(qrData)
    /\ ~isScreenScanning
    /\ ~isDraggingCamera
    /\ isDraggingCamera' = TRUE
    /\ trace' = <<>>
    /\ listener' = StreamEffect(listener, isScreenScanning, activeStream)
    /\ UNCHANGED <<qrData, analysis, isProcessing, isScreenScanning, activeStream,
                   error, live, pendingDisplay, pendingFiles, pendingAnalysis, apiKey, displaySupported>>
    /\ raf' = ScannerCommit(raf, ScannerMounted(isScreenScanning, activeStream),
                          ScannerMounted(isScreenScanning', activeStream'))
    /\ UNCHANGED <<hungFiles, callVars>>

\* handleCameraDragEnd
CameraDragEnd ==
    /\ isDraggingCamera
    /\ isDraggingCamera' = FALSE
    /\ trace' = <<>>
    /\ listener' = StreamEffect(listener, isScreenScanning, activeStream)
    /\ UNCHANGED <<qrData, analysis, isProcessing, isScreenScanning, activeStream,
                   error, live, pendingDisplay, pendingFiles, pendingAnalysis, apiKey, displaySupported>>
    /\ raf' = ScannerCommit(raf, ScannerMounted(isScreenScanning, activeStream),
                          ScannerMounted(isScreenScanning', activeStream'))
    /\ UNCHANGED <<hungFiles, callVars>>

handleStartScreenScan_noSupportCheck(supported) ==
    [error |-> Null, calls |-> 1]

\* handleStartScreenScan up to its await: the new error and the number of
\* getDisplayMedia calls it issues
handleStartScreenScan(supported) ==
    IF ~supported
    THEN [error |-> ErrUnsupported, calls |-> 0]
    ELSE [error |-> Null, calls |-> 1]

CameraDrop_anyData(data) ==
    /\ ~ResultView(qrData)
    /\ ~ScannerMounted(isScreenScanning, activeStream)
    /\ LET h == handleStartScreenScan(displaySupported) IN
       /\ InFlight + h.calls <= MaxInFlight
       /\ error' = h.error
       /\ pendingDisplay' = pendingDisplay + h.calls
    /\ trace' = <<>>
    /\ isDraggingCamera' = FALSE
    /\ listener' = StreamEffect(listener, isScreenScanning, activeStream)
    /\ UNCHANGED <<qrData, analysis, isProcessing, isScreenScanning, activeStream,
                   live, pendingFiles, pendingAnalysis, apiKey, displaySupported>>
    /\ raf' = ScannerCommit(raf, ScannerMounted(isScreenScanning, activeStream),
                          ScannerMounted(isScreenScanning', activeStream'))
    /\ UNCHANGED <<hungFiles, callVars>>

\* handleCameraDrop on the drop target of the intake view (which lies under
\* the scanner overlay while the scanner is mounted)
CameraDrop(data) ==
    /\ ~ResultView(qrData)
    /\ ~ScannerMounted(isScreenScanning, activeStream)
    /\ IF data = CameraTrigger
       THEN LET h == handleStartScreenScan(displaySupported) IN
            /\ InFlight + h.calls <= MaxInFlight
            /\ error' = h.error
            /\ pendingDisplay' = pendingDisplay + h.calls
       ELSE UNCHANGED <<error, pendingDisplay>>
    /\ trace' = <<>>
    /\ isDraggingCamera' = FALSE
    /\ listener' = StreamEffect(listener, isScreenScanning, activeStream)
    /\ UNCHANGED <<qrData, analysis, isProcessing, isScreenScanning, activeStream,
                   live, pendingFiles, pendingAnalysis, apiKey, displaySupported>>
    /\ raf' = ScannerCommit(raf, ScannerMounted(isScreenScanning, activeStream),
                          ScannerMounted(isScreenScanning', activeStream'))
    /\ UNCHANGED <<hungFiles, callVars>>

\* handleStartScreenScan after its await, getDisplayMedia resolved
DisplayResolved ==
    /\ pendingDisplay > 0
    /\ FreshStreams # {}
    /\ pendingDisplay' = pendingDisplay - 1
    /\ live' = live \cup {FreshStream}
    /\ activeStream' = FreshStream
    /\ isScreenScanning' = TRUE
    /\ trace' = <<>>
    /\ listener' = StreamEffect(listener, isScreenScanning', activeStream')
    /\ UNCHANGED <<qrData, analysis, isProcessing, error, isDraggingCamera,
                   pendingFiles, pendingAnalysis, apiKey, displaySupported>>
    /\ raf' = ScannerCommit(raf, ScannerMounted(isScreenScanning, activeStream),
                          ScannerMounted(isScreenScanning', activeStream'))
    /\ UNCHANGED <<hungFiles, callVars>>

DisplayCatch_noSilent(name, err) == ErrCapture

\* the catch block of handleStartScreenScan: the error state after a
\* rejection named name
DisplayCatch(name, err) ==
    IF name = "NotAllowedError" THEN err ELSE ErrCapture

\* handleStartScreenScan after its await, getDisplayMedia rejected
DisplayRejected(name) ==
    /\ pendingDisplay > 0
    /\ pendingDisplay' = pendingDisplay - 1
    /\ error' = DisplayCatch(name, error)
    /\ trace' = IF name = "NotAllowedError" THEN <<"console.log">>
                ELSE <<"console.error", "setError">>
    /\ listener' = StreamEffect(listener, isScreenScanning, activeStream)
    /\ UNCHANGED <<qrData, analysis, isProcessing, isScreenScanning, activeStream,
                   isDraggingCamera, live, pendingFiles, pendingAnalysis, apiKey, displaySupported>>
    /\ raf' = ScannerCommit(raf, ScannerMounted(isScreenScanning, activeStream),
                          ScannerMounted(isScreenScanning', activeStream'))
    /\ UNCHANGED <<hungFiles, callVars>>

\* a stop button of ScreenScanner: onCancel = handleStopScreenScan of the
\* current render
StopButton ==
    /\ ScannerMounted(isScreenScanning, activeStream)
    /\ LET h == handleStopScreenScan(activeStream, live, activeStream) IN
       /\ live' = h.live
       /\ activeStream' = h.activeStream
       /\ isScreenScanning' = h.isScreenScanning
       /\ trace' = h.trace
    /\ listener' = StreamEffect(listener, isScreenScanning', activeStream')
    /\ UNCHANGED <<qrData, analysis, isProcessing, error, isDraggingCamera,
                   pendingDisplay, pendingFiles, pendingAnalysis, apiKey, displaySupported>>
    /\ raf' = ScannerCommit(raf, ScannerMounted(isScreenScanning, activeStream),
                          ScannerMounted(isScreenScanning', activeStream'))
    /\ UNCHANGED <<hungFiles, callVars>>

\* the browser ends the tracks of stream s (the user stops sharing); the
\* 'ended' event reaches handleTrackEnded if the listener is on that track
TrackEnded(s) ==
    /\ s \in live
    /\ IF listener = s
       THEN LET h == handleStopScreenScan(activeStream, live \ {s}, activeStream) IN
            /\ live' = h.live
            /\ activeStream' = h.activeStream
            /\ isScreenScanning' = h.isScreenScanning
            /\ trace' = <<"onCancel">> \o h.trace
       ELSE /\ live' = live \ {s}
            /\ trace' = <<>>
            /\ UNCHANGED <<activeStream, isScreenScanning>>
    /\ listener' = StreamEffect(listener, isScreenScanning', activeStream')
    /\ UNCHANGED <<qrData, analysis, isProcessing, error, isDraggingCamera,
                   pendingDisplay, pendingFiles, pendingAnalysis, apiKey, displaySupported>>
    /\ raf' = ScannerCommit(raf, ScannerMounted(isScreenScanning, activeStream),
                          ScannerMounted(isScreenScanning', activeStream'))
    /\ UNCHANGED <<hungFiles, callVars>>

\* an animation frame of the scan loop that ends without a code: the scan
\* callback asks for the next frame.  The callback of an unmounted scanner
\* finds videoRef.current null and skips.
ScanFrame_stopsAfterThrow(outcome) ==
    /\ raf.pending > 0
    /\ ~ScannerMounted(isScreenScanning, activeStream) => outcome = "skipped"
    /\ raf' = IF outcome = "threw" THEN RunFrame(raf) ELSE RequestFrame(RunFrame(raf))
    /\ trace' = CASE outcome = "skipped" -> <<"requestAnimationFrame">>
                  [] outcome = "threw" -> <<"scanImageData", "console.warn">>
                  [] OTHER -> <<"scanImageData", "requestAnimationFrame">>
    /\ UNCHANGED <<qrData, analysis, isProcessing, isScreenScanning, activeStream,
                   error, isDraggingCamera, live, pendingDisplay, pendingFiles,
                   pendingAnalysis, listener, apiKey, displaySupported, hungFiles,
                   callVars>>

ScanFrame(outcome) ==
    /\ raf.pending > 0
    /\ ~ScannerMounted(isScreenScanning, activeStream) => outcome = "skipped"
    /\ raf' = RequestFrame(RunFrame(raf))
    /\ trace' = CASE outcome = "skipped" -> <<"requestAnimationFrame">>
                  [] outcome = "threw" ->
                       <<"scanImageData", "console.warn", "requestAnimationFrame">>
                  [] OTHER -> <<"scanImageData", "requestAnimationFrame">>
    /\ UNCHANGED <<qrData, analysis, isProcessing, isScreenScanning, activeStream,
                   error, isDraggingCamera, live, pendingDisplay, pendingFiles,
                   pendingAnalysis, listener, apiKey, displaySupported, hungFiles,
                   callVars>>

\* an animation frame of the scan loop in which scanImageData finds a code:
\* onScan(code.data) = processQRData of the current render
ScanDecoded(data) ==
    /\ ScannerMounted(isScreenScanning, activeStream)
    /\ raf.pending > 0
    /\ InFlight < MaxInFlight
    /\ LET p == processQRData(data, activeStream, live, activeStream, apiKey) IN
       /\ qrData' = p.qrData
       /\ isProcessing' = p.isProcessing
       /\ live' = p.live
       /\ activeStream' = p.activeStream
       /\ isScreenScanning' = p.isScreenScanning
       /\ error' = p.error
       /\ pendingAnalysis' = pendingAnalysis (+) SetToBag({p.request})
       /\ trace' = <<"scanImageData", "cancelAnimationFrame", "onScan">> \o p.trace
    /\ listener' = StreamEffect(listener, isScreenScanning', activeStream')
    /\ UNCHANGED <<analysis, isDraggingCamera, pendingDisplay, pendingFiles, apiKey, displaySupported>>
    /\ raf' = ScannerCommit(RunFrame(raf), ScannerMounted(isScreenScanning, activeStream),
                          ScannerMounted(isScreenScanning', activeStream'))
    /\ UNCHANGED <<hungFiles, callVars>>

\* the promise of analyzeQRContent(data) settles; processQRData's .then
\* stores the result, its .catch only logs
AnalysisSettled(data, remote) ==
    /\ BagIn(data, pendingAnalysis)
    /\ pendingAnalysis' = pendingAnalysis (-) SetToBag({data})
    /\ LET a == analyzeQRContent(apiKey, remote) IN
       /\ analysis' = IF a.settled = "resolved" THEN a.value ELSE analysis
       /\ trace' = IF a.settled = "resolved" THEN <<"setAnalysis">>
                   ELSE <<"console.error">>
    /\ listener' = StreamEffect(listener, isScreenScanning, activeStream)
    /\ UNCHANGED <<qrData, isProcessing, isScreenScanning, activeStream, error,
                   isDraggingCamera, live, pendingDisplay, pendingFiles, apiKey, displaySupported>>
    /\ raf' = ScannerCommit(raf, ScannerMounted(isScreenScanning, activeStream),
                          ScannerMounted(isScreenScanning', activeStream'))
    /\ UNCHANGED <<hungFiles, callVars>>

Next ==
    \/ \E path \in {"picker", "paste"} : FileSelected(path)
    \/ \E files \in DroppedFiles : HandleDrop(files)
    \/ \E cap \in Streams \cup {NoStream}, r \in DecodeOutcomes : FileDecoded(cap, r)
    \/ \E cap \in Streams \cup {NoStream} : FileHangs(cap)
    \/ Reset
    \/ CameraDragStart
    \/ CameraDragEnd
    \/ \E data \in DragData : CameraDrop(data)
    \/ DisplayResolved
    \/ \E name \in DisplayErrors : DisplayRejected(name)
    \/ StopButton
    \/ \E s \in Streams : TrackEnded(s)
    \/ \E outcome \in FrameOutcomes : ScanFrame(outcome)
    \/ \E data \in Payloads : ScanDecoded(data)
    \/ \E data \in Payloads, remote \in RemoteOutcomes : AnalysisSettled(data, remote)

Spec == Init /\ [][Next]_vars

\* ------------------------------------------- scanImageData as a function
\* any ImageData, with or without the decoder library loaded
ScanImageInit ==
    /\ AppInit
    /\ imageData \in ImageDatas
    /\ jsQRLoaded \in BOOLEAN
    /\ code = NotCalled
    /\ file = NoFile
    /\ promise = NotStarted

\* const code = scanImageData(imageData)
CallScanImageData ==
    /\ code = NotCalled
    /\ code' = scanImageData(jsQRLoaded, imageData)
    /\ UNCHANGED <<imageData, jsQRLoaded, file, promise, gestureVars>>
    /\ UNCHANGED appVars

ScanImageNext == CallScanImageData

ScanImageSpec == ScanImageInit /\ [][ScanImageNext]_vars

\* ----------------------------------------- readQRFromImage as a function
\* any file, whatever becomes of it in the reader, the image and the canvas
ReadImageInit ==
    /\ AppInit
    /\ imageData = NoImage
    /\ jsQRLoaded = TRUE
    /\ code = NotCalled
    /\ file \in FileFates
    /\ promise = NotStarted

\* readQRFromImage(file), followed to the last handler that can run
CallReadQRFromImage ==
    /\ ~promise.called
    /\ promise' = [called |-> TRUE, calls |-> SettleCalls(file)]
    /\ UNCHANGED <<imageData, jsQRLoaded, code, file, gestureVars>>
    /\ UNCHANGED appVars

ReadImageNext == CallReadQRFromImage

ReadImageSpec == ReadImageInit /\ [][ReadImageNext]_vars

\* ------------------------------ ScreenScanner under an arbitrary parent
\* a ScreenScanner that App has just mounted on its first stream
ScannerInit ==
    /\ qrData = Null
    /\ analysis = <<>>
    /\ isProcessing = FALSE
    /\ isScreenScanning = TRUE
    /\ activeStream = 1
    /\ error = Null
    /\ isDraggingCamera = FALSE
    /\ live = {1}
    /\ pendingDisplay = 0
    /\ pendingFiles = EmptyBag
    /\ pendingAnalysis = EmptyBag
    /\ listener = StreamEffect(NoStream, TRUE, 1)
    /\ apiKey \in BOOLEAN
    /\ displaySupported \in BOOLEAN
    /\ hungFiles = 0
    /\ raf = ScanEffect(NoFrame, FALSE, TRUE, TRUE, TRUE)
    /\ trace = <<>>
    /\ imageData = NoImage
    /\ jsQRLoaded = TRUE
    /\ code = NotCalled
    /\ file = NoFile
    /\ promise = NotStarted
    /\ dragPosition = NoPosition
    /\ dragStartOffset = <<0, 0>>
    /\ mouse = NoGesture

\* the parent renders the mounted ScreenScanner again with the props stream,
\* onCancel and onScan, each the same object as before or a new one: the
\* first effect re-runs if stream or onCancel changed, the scan-loop effect
\* if onScan changed
ParentRender(stream, cancelChanged, scanChanged) ==
    /\ ScannerMounted(isScreenScanning, activeStream)
    /\ activeStream' = stream
    /\ live' = live \cup {stream}
    /\ listener' = StreamEffect(listener, isScreenScanning, stream)
    /\ raf' = ScanEffect(raf, TRUE, TRUE,
                         stream # activeStream \/ cancelChanged, scanChanged)
    /\ trace' = <<>>
    /\ UNCHANGED <<qrData, analysis, isProcessing, isScreenScanning, error,
                   isDraggingCamera, pendingDisplay, pendingFiles,
                   pendingAnalysis, apiKey, displaySupported, hungFiles,
                   callVars>>

ScannerNext ==
    \/ \E stream \in Streams, cancelChanged \in BOOLEAN, scanChanged \in BOOLEAN :
          ParentRender(stream, cancelChanged, scanChanged)
    \/ \E outcome \in FrameOutcomes : ScanFrame(outcome)
    \/ \E data \in Payloads : ScanDecoded(data)
    \/ StopButton
    \/ \E s \in Streams : TrackEnded(s)

ScannerSpec == ScannerInit /\ [][ScannerNext]_vars

\* ------------------------------------- the App variant unnamed/part_001
\* onKeyDown of the camera button of part_001 (rendered by the idle view,
\* when no scanner is shown and qrData is empty): Enter or Space calls
\* handleStartScreenScan, which begins as in App.tsx
CameraKey ==
    /\ ~ResultView(qrData)
    /\ ~ScannerMounted(isScreenScanning, activeStream)
    /\ LET h == handleStartScreenScan(displaySupported) IN
       /\ InFlight + h.calls <= MaxInFlight
       /\ error' = h.error
       /\ pendingDisplay' = pendingDisplay + h.calls
    /\ trace' = <<>>
    /\ listener' = StreamEffect(listener, isScreenScanning, activeStream)
    /\ raf' = ScannerCommit(raf, ScannerMounted(isScreenScanning, activeStream),
                          ScannerMounted(isScreenScanning, activeStream))
    /\ UNCHANGED <<qrData, analysis, isProcessing, isScreenScanning, activeStream,
                   isDraggingCamera, live, pendingFiles, pendingAnalysis,
                   apiKey, displaySupported, hungFiles, callVars>>

\* handleReset of part_001, the onClick of the header logo and the onReset
\* of ResultCard: as in App.tsx, then handleStopScreenScan() of the current
\* render
ResetPart001 ==
    /\ qrData' = Null
    /\ analysis' = <<>>
    /\ error' = Null
    /\ isProcessing' = FALSE
    /\ LET h == handleStopScreenScan(activeStream, live, activeStream) IN
       /\ live' = h.live
       /\ activeStream' = h.activeStream
       /\ isScreenScanning' = h.isScreenScanning
       /\ trace' = h.trace
    /\ listener' = StreamEffect(listener, isScreenScanning', activeStream')
    /\ raf' = ScannerCommit(raf, ScannerMounted(isScreenScanning, activeStream),
                          ScannerMounted(isScreenScanning', activeStream'))
    /\ UNCHANGED <<isDraggingCamera, pendingDisplay, pendingFiles,
                   pendingAnalysis, apiKey, displaySupported, hungFiles,
                   callVars>>

\* part_001 with its keyboard start, its reset, and the handlers whose
\* code it shares with App.tsx
Part001Next ==
    \/ CameraKey
    \/ ResetPart001
    \/ DisplayResolved
    \/ DisplayRejected("NotAllowedError")
    \/ StopButton
    \/ \E s \in Streams : TrackEnded(s)
    \/ \E outcome \in FrameOutcomes : ScanFrame(outcome)
    \/ \E data \in Payloads : ScanDecoded(data)
    \/ \E data \in Payloads, remote \in RemoteOutcomes : AnalysisSettled(data, remote)

Part001Spec == Init /\ [][Part001Next]_vars

\* ------------------------------------- the App variant unnamed/part_000
\* what a gesture step leaves alone: part_000's scanner, files and analysis
gestureFrame == <<qrData, analysis, isProcessing, isScreenScanning, activeStream,
                  isDraggingCamera, live, pendingFiles, pendingAnalysis,
                  listener, apiKey, displaySupported, hungFiles, raf,
                  imageData, jsQRLoaded, code, file, promise>>

\* handleMouseDown on the camera button (rendered while qrData is empty,
\* under the scanner overlay): only the left button starts a drag; the
\* offset of the pointer in the button is kept in the ref and dragPosition
\* is set to the button's corner
MouseDown(p, button) ==
    /\ ~ResultView(qrData)
    /\ ~ScannerMounted(isScreenScanning, activeStream)
    /\ OverButton(p)
    /\ ~mouse.down /\ ~mouse.click
    /\ IF button # 0
       THEN UNCHANGED <<dragPosition, dragStartOffset, mouse>>
       ELSE /\ dragStartOffset' = <<p[1] - ButtonRect.left, p[2] - ButtonRect.top>>
            /\ dragPosition' = <<ButtonRect.left, ButtonRect.top>>
            /\ mouse' = [down |-> TRUE, click |-> FALSE, starts |-> 0]
    /\ trace' = <<>>
    /\ UNCHANGED <<error, pendingDisplay>>
    /\ UNCHANGED gestureFrame

\* handleMouseMove, the window listener the drag effect registers while
\* dragPosition is not null
MouseMove(p) ==
    /\ dragPosition # NoPosition
    /\ dragPosition' = <<p[1] - dragStartOffset[1], p[2] - dragStartOffset[2]>>
    /\ trace' = <<>>
    /\ UNCHANGED <<dragStartOffset, mouse, error, pendingDisplay>>
    /\ UNCHANGED gestureFrame

\* the left button is released at p: handleMouseUp, registered while
\* dragPosition is not null, ends the drag and calls handleStartScreenScan;
\* the browser then queues a click for the button if the pointer is still
\* over it
MouseUp(p) ==
    /\ mouse.down
    /\ IF dragPosition # NoPosition
       THEN LET h == handleStartScreenScan(displaySupported) IN
            /\ InFlight + h.calls <= MaxInFlight
            /\ dragPosition' = NoPosition
            /\ error' = h.error
            /\ pendingDisplay' = pendingDisplay + h.calls
            /\ mouse' = [down |-> FALSE, click |-> OverButton(p),
                         starts |-> mouse.starts + 1]
       ELSE /\ mouse' = [mouse EXCEPT !.down = FALSE, !.click = OverButton(p)]
            /\ UNCHANGED <<dragPosition, error, pendingDisplay>>
    /\ trace' = <<>>
    /\ UNCHANGED dragStartOffset
    /\ UNCHANGED gestureFrame

\* the click that follows the release reaches onClick of the camera
\* button, which is handleStartScreenScan
Click ==
    /\ mouse.click
    /\ LET h == handleStartScreenScan(displaySupported) IN
       /\ InFlight + h.calls <= MaxInFlight
       /\ error' = h.error
       /\ pendingDisplay' = pendingDisplay + h.calls
    /\ mouse' = [mouse EXCEPT !.click = FALSE, !.starts = mouse.starts + 1]
    /\ trace' = <<>>
    /\ UNCHANGED <<dragPosition, dragStartOffset>>
    /\ UNCHANGED gestureFrame

\* mouse gestures on the camera button of part_000; the user dismisses the
\* pickers that the gestures open
GestureNext ==
    \/ \E p \in Points, button \in MouseButtons : MouseDown(p, button)
    \/ \E p \in Points : MouseMove(p)
    \/ \E p \in Points : MouseUp(p)
    \/ Click
    \/ DisplayRejected("NotAllowedError")

GestureSpec == Init /\ [][GestureNext]_vars

\* Fairness for the liveness claims: every promise that can settle does
\* settle, and a pending scan callback eventually runs on a frame that
\* shows the code (strong fairness, because the bound on promises in flight
\* can disable the decoding frame for a while).
Fairness ==
    /\ WF_vars(\E cap \in Streams \cup {NoStream}, r \in DecodeOutcomes : FileDecoded(cap, r))
    /\ WF_vars(DisplayResolved \/ \E name \in DisplayErrors : DisplayRejected(name))
    /\ WF_vars(\E data \in Payloads, remote \in RemoteOutcomes : AnalysisSettled(data, remote))
    /\ SF_vars(\E data \in Payloads : ScanDecoded(data))

FairSpec == Spec /\ Fairness

TypeOK ==
    /\ qrData \in Payloads \cup {Null}
    /\ Len(analysis) <= 1
    /\ isProcessing \in BOOLEAN
    /\ isScreenScanning \in BOOLEAN
    /\ activeStream \in Streams \cup {NoStream}
    /\ live \subseteq Streams
    /\ pendingDisplay \in 0..MaxInFlight
    /\ InFlight <= MaxInFlight
    /\ listener \in Streams \cup {NoStream}
    /\ hungFiles \in 0..MaxInFlight
    /\ raf.pending \in Nat /\ raf.ref \in {"unset", "pending", "spent"}

\* ------------------------------------------------------------- properties
\* call a occurs before call b in the calls tr of one task
Before(tr, a, b) ==
    \E i \in 1..Len(tr) : \E j \in 1..Len(tr) : i < j /\ tr[i] = a /\ tr[j] = b

\* number of calls of a in the calls tr of one task
Count(tr, a) == Cardinality({i \in 1..Len(tr) : tr[i] = a})

\* the remote call throws, returns no text, or returns text that is not JSON
RemoteFails(r) == r.kind = "throw" \/ r.text = TxtEmpty \/ r.text = TxtGarbage

\* C1: whenever isScreenScanning is false, no acquired stream has live
\* tracks and activeStream is null.
C1_NoStreamOutsideSession ==
    ~isScreenScanning => (live = {} /\ activeStream = NoStream)

\* C2: at most one acquired stream has live tracks at any time, and it is
\* the one held in activeStream.
C2_AtMostOneLiveStream ==
    Cardinality(live) <= 1 /\ (live # {} => live = {activeStream})

\* C3: the stop button of an active capture session stops every track of
\* the active stream, sets activeStream to null and isScreenScanning to
\* false in that same step.
C3_CancelReleasesStream ==
    [][StopButton =>
          /\ activeStream \notin live'
          /\ activeStream' = NoStream
          /\ ~isScreenScanning']_vars

C3_Witness ==
    /\ trace = <<"track.stop", "setActiveStream(null)", "setIsScreenScanning(false)">>
    /\ activeStream = NoStream
    /\ ~isScreenScanning

\* C4: when the scan loop decodes a code, onScan -> processQRData stops the
\* tracks of the session's stream, sets activeStream to null and
\* isScreenScanning to false in the same step, all before it calls
\* analyzeQRContent for the payload.
C4_DecodeReleasesStreamFirst ==
    [][(\E data \in Payloads : ScanDecoded(data)) =>
          /\ activeStream \notin live'
          /\ activeStream' = NoStream
          /\ ~isScreenScanning'
          /\ Before(trace', "track.stop", "analyzeQRContent")
          /\ Before(trace', "setActiveStream(null)", "analyzeQRContent")
          /\ Before(trace', "setIsScreenScanning(false)", "analyzeQRContent")]_vars

C4_Witness ==
    /\ Len(trace) > 2
    /\ trace[3] = "onScan"
    /\ Before(trace, "track.stop", "analyzeQRContent")
    /\ pendingAnalysis # EmptyBag
    /\ activeStream = NoStream

\* C5: when the track of the active stream ends externally while
\* ScreenScanner is mounted, onCancel runs and the session ends
\* (activeStream null, isScreenScanning false); when ScreenScanner is not
\* mounted no 'ended' listener is registered.
C5_TrackEndedEndsSession ==
    /\ [](~ScannerMounted(isScreenScanning, activeStream) => listener = NoStream)
    /\ [][(ScannerMounted(isScreenScanning, activeStream) /\ TrackEnded(activeStream)) =>
             /\ Len(trace') > 0
             /\ trace'[1] = "onCancel"
             /\ activeStream' = NoStream
             /\ ~isScreenScanning'
             /\ listener' = NoStream]_vars

C5_Witness ==
    /\ Len(trace) > 0
    /\ trace[1] = "onCancel"
    /\ activeStream = NoStream
    /\ ~isScreenScanning
    /\ listener = NoStream

\* C6 as stated: after getDisplayMedia rejects with NotAllowedError, error
\* is null, no stream is stored and isScreenScanning is unchanged.
C6_Original ==
    [][DisplayRejected("NotAllowedError") =>
          /\ error' = Null
          /\ UNCHANGED <<activeStream, isScreenScanning>>]_vars

\* C6 amended: a NotAllowedError rejection sets no error message and
\* changes nothing: error, activeStream, isScreenScanning and the live
\* streams are as they were before the rejection.
C6_SilentCancellation ==
    [][DisplayRejected("NotAllowedError") =>
          UNCHANGED <<error, activeStream, isScreenScanning, live, qrData,
                      analysis, isProcessing>>]_vars

C6_Witness ==
    /\ trace = <<"console.log">>
    /\ error # Null

\* C7: when readQRFromImage resolves null or rejects, a non-null error is
\* set, isProcessing is false and qrData is null.
C7_FailedDecodeReturnsToIdle ==
    [][(\E cap \in Streams \cup {NoStream}, r \in {NotFound, Rejected} : FileDecoded(cap, r)) =>
          /\ error' # Null
          /\ ~isProcessing'
          /\ qrData' = Null]_vars

\* C8: analyzeQRContent never rejects; when the remote call throws, returns
\* no text or returns text that is not JSON, the stored result is a
\* placeholder with safety 'unknown' and category 'other', and qrData (and
\* with it the displayed payload) is unchanged.
C8_AnalysisFailureDegrades ==
    [][\A data \in Payloads, remote \in RemoteOutcomes :
          AnalysisSettled(data, remote) =>
             /\ trace' = <<"setAnalysis">>
             /\ qrData' = qrData
             /\ RemoteFails(remote) =>
                   /\ Len(analysis') = 1
                   /\ analysis'[1].safety = "unknown"
                   /\ analysis'[1].category = "other"]_vars

C8_Witness ==
    /\ trace = <<"setAnalysis">>
    /\ analysis = <<UnavailableResult>>
    /\ ResultView(qrData)

\* C9: a task that issues the analysis call for a payload has stored that
\* payload in qrData before the call and stores no analysis itself, so the
\* result of the call is stored only by a later task.
C9_PayloadBeforeAnalysis ==
    [][\A p \in Payloads :
          CopiesIn(p, pendingAnalysis') > CopiesIn(p, pendingAnalysis) =>
             /\ qrData' = p
             /\ Before(trace', "setQrData", "analyzeQRContent")
             /\ analysis' = analysis]_vars

C9_Witness ==
    /\ ResultView(qrData)
    /\ analysis = <<>>
    /\ BagIn(qrData, pendingAnalysis)

\* C10: analysis non-null implies qrData non-null in every reachable state
\* (an analysis of a payload decoded before a reset is never stored after
\* the reset).
C10_AnalysisImpliesPayload ==
    analysis # <<>> => qrData # Null

\* C11: analyzeQRContent is called exactly once per successful decode and
\* only then: a file decode that found a code, and a frame in which a code
\* was found, each add one analysis promise, for exactly the decoded
\* payload; a file decode that found nothing or failed adds none; and any
\* step that adds analysis promises is one processQRData call, adding one
\* promise for the payload it stored in qrData.
C11_OneRequestPerDecode ==
    [][/\ \A cap \in Streams \cup {NoStream}, r \in DecodeOutcomes :
             FileDecoded(cap, r) =>
                 pendingAnalysis' = IF r.kind = "found"
                                    THEN pendingAnalysis (+) SetToBag({r.data})
                                    ELSE pendingAnalysis
       /\ \A data \in Payloads :
             ScanDecoded(data) =>
                 pendingAnalysis' = pendingAnalysis (+) SetToBag({data})
       /\ Count(trace', "analyzeQRContent") <= 1
       /\ Count(trace', "generateContent") <= Count(trace', "analyzeQRContent")
       /\ ~(pendingAnalysis' \sqsubseteq pendingAnalysis) =>
             /\ Count(trace', "setQrData") = 1
             /\ Count(trace', "analyzeQRContent") = 1
             /\ qrData' \in Payloads
             /\ pendingAnalysis' = pendingAnalysis (+) SetToBag({qrData'})
       /\ Count(trace', "analyzeQRContent") = 1 =>
             BagCardinality(pendingAnalysis') = BagCardinality(pendingAnalysis) + 1]_vars

C11_Witness ==
    /\ Count(trace, "analyzeQRContent") = 1
    /\ qrData = "b"
    /\ pendingAnalysis = SetToBag({"a"}) (+) SetToBag({"b"})
    /\ error = Null

\* C12: every value stored in analysis is a well-formed AnalysisResult:
\* its safety is one of safe, suspicious, unknown, info and its category
\* one of url, text, wifi, other, whatever text the remote service returns.
C12_AnalysisWellFormed ==
    analysis # <<>> =>
        /\ analysis[1].safety \in Safeties
        /\ analysis[1].category \in Categories

\* the MIME type t begins with image/
IsImageType(t) == Len(t) >= 2 /\ t[1] = "image" /\ t[2] = "/"

\* C13: a drop whose first file has a MIME type that does not start with
\* image/ shows an alert and changes no state of the App: onFileSelected is
\* not called (no file decode is started) and qrData, analysis,
\* isProcessing and error keep their values, as does the rest of the App
\* state.
C13_NonImageDropRefused ==
    [][\A files \in DroppedFiles :
          (HandleDrop(files) /\ Len(files) > 0 /\ ~IsImageType(files[1])) =>
              /\ trace' = <<"setIsDragging(false)", "alert">>
              /\ pendingFiles' = pendingFiles
              /\ UNCHANGED <<qrData, analysis, isProcessing, error,
                             isScreenScanning, activeStream, isDraggingCamera>>]_vars

C13_Witness ==
    /\ trace = <<"setIsDragging(false)", "alert">>
    /\ isProcessing
    /\ error = Null
    /\ BagCardinality(pendingFiles) = 1

\* C14: at most one requestAnimationFrame callback of the scan loop is
\* pending at any time, also after the re-renders of App that re-run the
\* loop's effect while ScreenScanner stays mounted, and the callback that
\* ran last made at most one decode attempt.
C14_OnePendingFrame ==
    /\ raf.pending <= 1
    /\ Count(trace, "scanImageData") <= 1

C14_Witness ==
    /\ ScannerMounted(isScreenScanning, activeStream)
    /\ trace = <<"setAnalysis">>
    /\ raf = [pending |-> 1, ref |-> "pending"]

\* C15: once ScreenScanner is unmounted (the session was cancelled or
\* ended), no scan callback of that session is left pending, and a step
\* taken while no scanner is mounted makes no decode attempt and calls no
\* onScan.
C15_CancelStopsScanning ==
    [][/\ ~ScannerMounted(isScreenScanning', activeStream') => raf'.pending = 0
       /\ ~ScannerMounted(isScreenScanning, activeStream) =>
             /\ Count(trace', "scanImageData") = 0
             /\ Count(trace', "onScan") = 0]_vars

C15_Witness ==
    /\ ~ScannerMounted(isScreenScanning, activeStream)
    /\ trace = <<"track.stop", "setActiveStream(null)", "setIsScreenScanning(false)">>
    /\ raf = [pending |-> 0, ref |-> "unset"]
    /\ qrData = Null

\* C16: while ScreenScanner is mounted a scan callback is always pending:
\* every frame that ends without a code (skipped, decode threw, nothing
\* found) requests the next one.  Under Fairness, where pending callbacks
\* eventually meet a frame that shows a code, every session ends, by onScan
\* unless it is cancelled first; the only exception is a model state in
\* which every promise the bound allows is one that never settles.
C16_ScanLoopLive ==
    /\ [](ScannerMounted(isScreenScanning, activeStream) =>
             raf = [pending |-> 1, ref |-> "pending"])
    /\ [][(\E outcome \in FrameOutcomes : ScanFrame(outcome)) =>
             /\ raf' = [pending |-> 1, ref |-> "pending"]
             /\ trace'[Len(trace')] = "requestAnimationFrame"]_vars
    /\ (ScannerMounted(isScreenScanning, activeStream) ~>
            (\/ ~ScannerMounted(isScreenScanning, activeStream)
             \/ hungFiles = MaxInFlight))

C16_Witness ==
    /\ ScannerMounted(isScreenScanning, activeStream)
    /\ trace = <<"scanImageData", "console.warn", "requestAnimationFrame">>
    /\ raf = [pending |-> 1, ref |-> "pending"]

\* C17: scanImageData returns exactly what the decoder returns for the
\* pixel buffer and the dimensions of the given ImageData; if the decoder
\* library is not loaded it returns null and does not throw; and the call
\* changes no state of the application.
C17_ScanImageDataPure ==
    [][code' # code =>
          /\ code' = IF jsQRLoaded
                     THEN jsQR(imageData.data, imageData.width, imageData.height)
                     ELSE NotFound
          /\ code' # Threw
          /\ UNCHANGED appVars
          /\ UNCHANGED <<imageData, jsQRLoaded>>]_vars

C17_Witness ==
    /\ code = NotFound
    /\ ~jsQRLoaded
    /\ imageData.data.shows = "a"
    /\ imageData.width = imageData.data.rowLen
    /\ imageData.height = imageData.data.rows

\* 1 if the flag holds, else 0
Bit(b) == IF b THEN 1 ELSE 0

\* C18: the App is in at most one of processing, scanning and result: at
\* most one of isProcessing = true, isScreenScanning = true and qrData
\* non-null holds in every reachable state.
C18_OneModeAtATime ==
    Bit(isProcessing) + Bit(isScreenScanning) + Bit(qrData # Null) <= 1

\* C19: the analysis shown belongs to the payload shown: when an analysis
\* promise settles and its result is stored while a payload is in qrData,
\* the promise was requested for that payload; the analysis of an earlier
\* payload never lands next to a newer one.
C19_AnalysisMatchesPayload ==
    [][\A data \in Payloads, remote \in RemoteOutcomes :
          (AnalysisSettled(data, remote) /\ analysis' # <<>> /\ qrData' # Null)
              => qrData' = data]_vars

\* C20: readQRFromImage settles for every file, also when the FileReader
\* fails or yields an empty result: no promise is left that can never
\* settle, and isProcessing is true only while a decode that will settle
\* is in flight.
C20_EveryDecodeSettles ==
    /\ hungFiles = 0
    /\ isProcessing => pendingFiles # EmptyBag

\* C21: a successful decode of any payload the decoder can return, the
\* empty string included, ends in the result view: after processQRData(data)
\* ResultCard is rendered with rawContent equal to data
C21_DecodeShowsResult ==
    [][\A data \in Payloads :
         (\/ \E cap \in Streams \cup {NoStream} : FileDecoded(cap, Found(data))
          \/ ScanDecoded(data))
         => (ResultView(qrData') /\ qrData' = data)]_vars

\* the image of the file reached the Image element and was drawn
Drawn(f) ==
    f.reader = "load" /\ f.result # "" /\ f.image = "load" /\ f.context

\* C22: readQRFromImage resolves with the decoded code when the decoder
\* finds one, resolves with null (no rejection) when the image loads but
\* holds no code, rejects when the image fails to load, the canvas context
\* is unavailable or reading the pixels throws, and settles its promise at
\* most once; the outcome seen by the caller is the first call
C22_ReadQRFromImageSettles ==
    [][promise' # promise =>
         LET calls == promise'.calls
             handed == file.reader = "load" /\ file.result # ""
         IN  /\ Len(calls) <= 1
             /\ (Drawn(file) /\ file.pixels = "ok" /\ file.code # Null)
                   => calls = <<Found(file.code)>>
             /\ (Drawn(file) /\ file.pixels = "ok" /\ file.code = Null)
                   => calls = <<NotFound>>
             /\ (handed /\ file.image = "error") => calls = <<Rejected>>
             /\ (handed /\ file.image = "load" /\ ~file.context)
                   => calls = <<Rejected>>
             /\ (Drawn(file) /\ file.pixels = "throws") => calls = <<Rejected>>
             /\ calls # <<>> => readQRFromImage(file) = calls[1]
             /\ calls = <<>> => readQRFromImage(file) = Hangs
             /\ UNCHANGED appVars]_vars

C22_Witness ==
    /\ promise.called
    /\ promise.calls = <<NotFound>>
    /\ Drawn(file) /\ file.pixels = "ok" /\ file.code = Null

\* C23: isProcessing is true whenever an image decode started by
\* handleFileSelected is still in flight
C23_ProcessingWhileDecoding ==
    pendingFiles # EmptyBag => isProcessing

\* C24: at most one image decode is in flight at any time: while
\* isProcessing is true no intake path of DropZone starts another
\* handleFileSelected
C24_OneDecodeInFlight ==
    [][isProcessing =>
         BagCardinality(pendingFiles') <= BagCardinality(pendingFiles)]_vars

\* C25: onScan is called at most once per capture session: the frame that
\* finds a code calls onScan once, requests no further animation frame, and
\* leaves no callback pending and no ScreenScanner mounted, so that any
\* later onScan belongs to another mount
C25_OneScanPerSession ==
    [][\A data \in Payloads :
         ScanDecoded(data) =>
            /\ Count(trace', "onScan") = 1
            /\ Count(trace', "requestAnimationFrame") = 0
            /\ raf'.pending = 0
            /\ ~ScannerMounted(isScreenScanning', activeStream')]_vars

C25_Witness ==
    /\ Count(trace, "onScan") = 1
    /\ qrData = "b"
    /\ raf.pending = 0
    /\ ~isScreenScanning
    /\ live = {}

\* C26: the scan loop of a mounted ScreenScanner never stalls across prop
\* changes: whatever props the parent renders it with, a scan callback is
\* pending as long as the component is mounted and no code has been found
C26_LoopSurvivesRerender ==
    (ScannerMounted(isScreenScanning, activeStream) /\ qrData = Null)
        => raf.pending >= 1

\* C27: without navigator.mediaDevices.getDisplayMedia, handleStartScreenScan
\* sets a non-null error message, issues no request, acquires no stream and
\* leaves isScreenScanning and activeStream unchanged; when getDisplayMedia
\* rejects with an error other than NotAllowedError, an error message is
\* set and no session starts
C27_CaptureFailuresReported ==
    [][/\ (CameraDrop(CameraTrigger) /\ ~displaySupported) =>
             /\ error' = ErrUnsupported /\ error' # Null
             /\ pendingDisplay' = pendingDisplay
             /\ UNCHANGED <<live, isScreenScanning, activeStream>>
       /\ \A name \in DisplayErrors \ {"NotAllowedError"} :
             DisplayRejected(name) =>
                /\ error' = ErrCapture /\ error' # Null
                /\ UNCHANGED <<live, isScreenScanning, activeStream>>]_vars

C27_Witness ==
    /\ ~displaySupported
    /\ error = ErrUnsupported
    /\ pendingDisplay = 0
    /\ ~isScreenScanning
    /\ activeStream = NoStream
    /\ live = {}

\* C28: handleReset of src/App.tsx sets qrData, analysis and error to null
\* and isProcessing to false and leaves isScreenScanning and activeStream
\* unchanged
C28_ResetKeepsSession ==
    [][Reset =>
         /\ qrData' = Null /\ analysis' = <<>> /\ error' = Null
         /\ ~isProcessing'
         /\ UNCHANGED <<isScreenScanning, activeStream, live>>]_vars

\* C28, the variant of part_001: handleReset also ends any capture session,
\* so that no stream is live after a reset
C28_ResetEndsCapture ==
    [][ResetPart001 =>
         /\ qrData' = Null /\ analysis' = <<>> /\ error' = Null
         /\ ~isProcessing'
         /\ ~isScreenScanning' /\ activeStream' = NoStream
         /\ live' = {}]_vars

\* C29: one mouse gesture on the camera button of part_000 (mousedown,
\* mouseup with or without movement, and the click the browser then
\* delivers) calls handleStartScreenScan at most once, and dragPosition is
\* null once the button is released
C29_OneStartPerGesture ==
    /\ mouse.starts <= 1
    /\ ~mouse.down => dragPosition = NoPosition

\* C30: a drop on the camera drop target of App.tsx calls
\* handleStartScreenScan (a getDisplayMedia request, or the 'unsupported'
\* error where the API is missing) if and only if the dragged text is the
\* literal 'camera-trigger'; after any drop on the target and after any
\* drag end of the icon isDraggingCamera is false
C30_DropStartsCapture ==
    [][/\ \A data \in DragData :
             CameraDrop(data) =>
                /\ data = CameraTrigger =>
                      IF displaySupported
                      THEN pendingDisplay' = pendingDisplay + 1 /\ error' = Null
                      ELSE pendingDisplay' = pendingDisplay /\ error' = ErrUnsupported
                /\ data # CameraTrigger => UNCHANGED <<pendingDisplay, error>>
                /\ ~isDraggingCamera'
                /\ UNCHANGED <<isScreenScanning, activeStream, live>>
       /\ CameraDragEnd => ~isDraggingCamera']_vars

C30_Witness ==
    /\ displaySupported
    /\ pendingDisplay = 1
    /\ ~isDraggingCamera
    /\ error = Null
    /\ pendingFiles = EmptyBag /\ pendingAnalysis = EmptyBag
    /\ qrData = Null

\* C31: when no API key is configured, analyzeQRContent issues no remote
\* request and resolves to the placeholder result with safety 'unknown' and
\* category 'other', whatever the remote service would have answered: no
\* task calls generateContent, and every analysis that settles stores the
\* placeholder
C31_NoKeyNoRequest ==
    [][~apiKey =>
         /\ Count(trace', "generateContent") = 0
         /\ \A remote \in RemoteOutcomes :
               /\ ~analyzeQRContent(apiKey, remote).requested
               /\ analyzeQRContent(apiKey, remote).settled = "resolved"
         /\ \A data \in Payloads, remote \in RemoteOutcomes :
               AnalysisSettled(data, remote) =>
                  /\ analysis' = <<NoKeyResult>>
                  /\ analysis'[1].safety = "unknown"
                  /\ analysis'[1].category = "other"
                  /\ trace' = <<"setAnalysis">>]_vars

C31_Witness ==
    /\ ~apiKey
    /\ trace = <<"setAnalysis">>
    /\ analysis = <<NoKeyResult>>
    /\ qrData = "a"
    /\ pendingAnalysis = EmptyBag

====
